---- MODULE Spec2Model ----
(***************************************************************************)
(* WhatsApp-Chat-Analyser: preprocessor.preprocess (raw export text ->     *)
(* table of message records) and the aggregator functions of helper.py.    *)
(*                                                                         *)
(* Text is a sequence of atoms.  An atom of the raw export is either one   *)
(* occurrence of the timestamp header pattern                              *)
(*   \d{2}/\d{2}/\d{2},\s\d{1,2}:\d{2}\s[ap]m\s-\s                         *)
(* carrying the digits it matched (dd/mm/yy, hh:mi ap), or one character / *)
(* indivisible word of body text.  Strings of the program (sender names,   *)
(* message texts) are sequences of body atoms.                             *)
(***************************************************************************)
EXTENDS Integers, Sequences, FiniteSets, TLC

VARIABLES data, df, watched, uploaded_file, previous_file, options, choice, button,
          selected, pc, result

\* the dashboard: its widgets and the position of the script run
dashboard == <<uploaded_file, previous_file, options, choice, button, selected, pc>>

vars == <<data, df, watched, dashboard, result>>

----------------------------------------------------------------------------
(* Bounds of the model *)

\* longest raw text (in atoms) enumerated for the splitting of the export
MaxTokens == 4
\* longest message body (in atoms) enumerated for the sender/text split
MaxBodyLen == 6
\* most message blocks of an export handed to the aggregators
MaxMsgs == 2
\* most records of a table handed to most_busy_users
MaxRecords == 31
\* most messages of one sender in the tables handed to most_busy_users
MaxPerSender == 6
MaxEmojis == 3
MaxMonthly == 3

----------------------------------------------------------------------------
(* Raw text atoms *)

\* a character of body text
Chr(c) == [ch |-> c, hdr |-> <<>>]

\* a header match and the digits it matched: dd/mm/yy, hh:mi ap
Hdr(d, m, y, h, n, a) == [ch |-> "", hdr |-> <<d, m, y, h, n, a>>]

IsHeader(t) == Len(t.hdr) > 0

\* the fields of a header match
HeaderOf(t) == [dd |-> t.hdr[1], mm |-> t.hdr[2], yy |-> t.hdr[3],
                hh |-> t.hdr[4], mi |-> t.hdr[5], ap |-> t.hdr[6]]

\* the characters \s matches
WhiteSpace == {" ", "\n", "\t", "\r", "\f"}

Range(s) == {s[i] : i \in DOMAIN s}

Text(chars) == [i \in DOMAIN chars |-> Chr(chars[i])]

\* the characters of a run of body atoms
Chars(toks) == [i \in DOMAIN toks |-> toks[i].ch]

RECURSIVE Concat(_)
Concat(ss) == IF ss = <<>> THEN <<>> ELSE Head(ss) \o Concat(Tail(ss))

----------------------------------------------------------------------------
(* preprocessor.py *)

HeaderPositions(s) == {i \in DOMAIN s : IsHeader(s[i])}

\* position of the first header match of s at or after position i, 0 if none
RECURSIVE FirstHeader(_, _)
FirstHeader(s, i) ==
    IF i > Len(s) THEN 0
    ELSE IF IsHeader(s[i]) THEN i
    ELSE FirstHeader(s, i + 1)

\* re.split(pattern, data): the pieces of text around every header match
RECURSIVE re_split(_)
re_split(s) ==
    LET i == FirstHeader(s, 1)
    IN  IF i = 0 THEN << Chars(s) >>
        ELSE << Chars(SubSeq(s, 1, i - 1)) >> \o re_split(SubSeq(s, i + 1, Len(s)))

\* re.findall(pattern, data): the header matches, in order
re_findall(s) ==
    LET found == SelectSeq(s, IsHeader)
    IN  [i \in DOMAIN found |-> HeaderOf(found[i])]

\* %y: 00..68 -> 2000..2068, 69..99 -> 1969..1999
FullYear(yy) == IF yy <= 68 THEN 2000 + yy ELSE 1900 + yy

IsLeap(y) == (y % 4 = 0 /\ y % 100 # 0) \/ y % 400 = 0

DaysInMonth(y, m) ==
    IF m = 2 THEN (IF IsLeap(y) THEN 29 ELSE 28)
    ELSE IF m \in {4, 6, 9, 11} THEN 30 ELSE 31

\* as ValidHeader, with the hour read on the 24-hour clock (%H for %I)
ValidHeader_24h(h) ==
    /\ h.mm \in 1..12
    /\ h.dd >= 1 /\ h.dd <= DaysInMonth(FullYear(h.yy), h.mm)
    /\ h.hh \in 0..23
    /\ h.mi \in 0..59

\* whether '%d/%m/%y, %I:%M %p - ' parses the header
ValidHeader(h) ==
    /\ h.mm \in 1..12
    /\ h.dd >= 1 /\ h.dd <= DaysInMonth(FullYear(h.yy), h.mm)
    /\ h.hh \in 1..12
    /\ h.mi \in 0..59

\* the datetime a valid header denotes (%I with %p: 12 am is hour 0, 12 pm is hour 12)
to_datetime(h) ==
    [year |-> FullYear(h.yy), month |-> h.mm, day |-> h.dd,
     hour |-> (h.hh % 12) + (IF h.ap = "pm" THEN 12 ELSE 0), minute |-> h.mi]

MonthNames == <<"January", "February", "March", "April", "May", "June", "July",
                "August", "September", "October", "November", "December">>

month_name(ts) == MonthNames[ts.month]

DayNames == <<"Sunday", "Monday", "Tuesday", "Wednesday", "Thursday", "Friday", "Saturday">>

\* weekday of a Gregorian date
day_name(ts) ==
    LET t == <<0, 3, 2, 5, 0, 3, 5, 1, 4, 6, 2, 4>>
        y == IF ts.month < 3 THEN ts.year - 1 ELSE ts.year
    IN  DayNames[((y + (y \div 4) - (y \div 100) + (y \div 400) + t[ts.month] + ts.day) % 7) + 1]

group_notification == <<"group_notification">>

\* as ColonAt, with a pattern that lets the name be empty ('*?' for '+?')
ColonAt_EmptyName(s) == {k \in 1..(Len(s) - 1) : s[k] = ":" /\ s[k + 1] \in WhiteSpace}

\* positions k > 1 of s where ':' is followed by a whitespace character:
\* where '([\w\W]+?):\s' can end a match that starts at position 1
ColonAt(s) == {k \in 2..(Len(s) - 1) : s[k] = ":" /\ s[k + 1] \in WhiteSpace}

\* re.split('([\w\W]+?):\s', message): every match starts where the previous one
\* ended, so the piece before each match is empty and only the last piece holds text
RECURSIVE re_split_sender(_)
re_split_sender(s) ==
    IF ColonAt(s) = {} THEN << s >>
    ELSE LET k == CHOOSE p \in ColonAt(s) : \A q \in ColonAt(s) : p <= q
         IN  << <<>>, SubSeq(s, 1, k - 1) >> \o re_split_sender(SubSeq(s, k + 2, Len(s)))

\* the loop body of preprocess: sender and text of one raw message body
SplitMessage(message) ==
    LET entry == re_split_sender(message)
    IN  IF Len(entry) > 1
        THEN [user |-> entry[2], message |-> entry[3]]
        ELSE [user |-> group_notification, message |-> entry[1]]

Row(h, body) ==
    LET ts == to_datetime(h)
        sm == SplitMessage(body)
    IN  [message_date |-> ts, year |-> ts.year, month_num |-> ts.month,
         month |-> month_name(ts), day |-> ts.day, day_name |-> day_name(ts),
         only_date |-> <<ts.year, ts.month, ts.day>>, hour |-> ts.hour,
         minute |-> ts.minute, user |-> sm.user, message |-> sm.message]

NoTable == [state |-> "none", rows |-> <<>>]

\* as preprocess, without the [1:] that drops the text before the first header
preprocess_KeepsFirstPiece(s) ==
    LET messages == re_split(s)
        dates    == re_findall(s)
    IN  IF \E i \in DOMAIN dates : ~ValidHeader(dates[i])
        THEN [state |-> "ValueError", rows |-> <<>>]
        ELSE [state |-> "ok", rows |-> [i \in DOMAIN dates |-> Row(dates[i], messages[i])]]

\* preprocess(data): the table, or the ValueError pd.to_datetime raises
preprocess(s) ==
    LET messages == Tail(re_split(s))
        dates    == re_findall(s)
    IN  IF \E i \in DOMAIN dates : ~ValidHeader(dates[i])
        THEN [state |-> "ValueError", rows |-> <<>>]
        ELSE [state |-> "ok", rows |-> [i \in DOMAIN dates |-> Row(dates[i], messages[i])]]

----------------------------------------------------------------------------
(* helper.py *)

Overall == <<"Overall">>

\* 'Media omitted\n'
MediaOmitted == <<"Media", " ", "omitted", "\n">>

\* atoms that are one emoji character (a key of emoji.EMOJI_DATA)
EMOJI_DATA == {"(joy)", "(heart)", "(fire)"}

\* atoms URLExtract.find_urls reports as a URL
UrlAtoms == {"http://example.com", "https://x.co"}

\* atoms that are a run of word characters (\w); the words of this model are
\* neither numbers nor stop words of the wordcloud library
WordAtoms == {"hi", "Media", "omitted"}

RECURSIVE SumSeq(_)
SumSeq(s) == IF s = <<>> THEN 0 ELSE Head(s) + SumSeq(Tail(s))

\* as ScopedView, with the system notifications left out of the 'Overall' view
\* (as app.py leaves them out of its list of users)
ScopedView_DropsNotifications(selected_user, rows) ==
    IF selected_user # Overall
    THEN SelectSeq(rows, LAMBDA r : r.user = selected_user)
    ELSE SelectSeq(rows, LAMBDA r : r.user # group_notification)

\* the df = df[df['user'] == selected_user] every scoped function starts with
ScopedView(selected_user, rows) ==
    IF selected_user # Overall
    THEN SelectSeq(rows, LAMBDA r : r.user = selected_user)
    ELSE rows

\* len(message.split()): the maximal runs of non-whitespace characters
WordCount(m) ==
    Cardinality({i \in DOMAIN m : m[i] \notin WhiteSpace /\ (i = 1 \/ m[i - 1] \in WhiteSpace)})

\* len(extract.find_urls(message))
UrlCount(m) == Cardinality({i \in DOMAIN m : m[i] \in UrlAtoms})

Returned(v) == [raised |-> FALSE, value |-> v]

\* whether text m contains text w
Contains(m, w) == \E i \in 0..(Len(m) - Len(w)) : SubSeq(m, i + 1, i + Len(w)) = w

\* as fetch_stats, counting as media every message that contains the placeholder
\* (str.contains for ==)
fetch_stats_MediaContained(selected_user, rows) ==
    LET view == ScopedView(selected_user, rows)
    IN  Returned([num_messages |-> Len(view),
                  words |-> SumSeq([i \in DOMAIN view |-> WordCount(view[i].message)]),
                  num_media_messages |-> Len(SelectSeq(view, LAMBDA r : Contains(r.message, MediaOmitted))),
                  links |-> SumSeq([i \in DOMAIN view |-> UrlCount(view[i].message)])])

fetch_stats(selected_user, rows) ==
    LET view == ScopedView(selected_user, rows)
    IN  Returned([num_messages |-> Len(view),
                  words |-> SumSeq([i \in DOMAIN view |-> WordCount(view[i].message)]),
                  num_media_messages |-> Len(SelectSeq(view, LAMBDA r : r.message = MediaOmitted)),
                  links |-> SumSeq([i \in DOMAIN view |-> UrlCount(view[i].message)])])

\* the distinct values of a column, in order of first occurrence
RECURSIVE Unique(_)
Unique(s) ==
    IF s = <<>> THEN <<>>
    ELSE LET u == Unique(SubSeq(s, 1, Len(s) - 1))
             x == s[Len(s)]
         IN  IF x \in Range(u) THEN u ELSE Append(u, x)

Occurrences(x, s) == Cardinality({i \in DOMAIN s : s[i] = x})

\* as InsertByCount, with an entry put before the entries of its own count
RECURSIVE InsertByCount_TiesReversed(_, _)
InsertByCount_TiesReversed(e, t) ==
    IF t = <<>> THEN <<e>>
    ELSE IF Head(t).count > e.count THEN <<Head(t)>> \o InsertByCount_TiesReversed(e, Tail(t))
    ELSE <<e>> \o t

\* insert entry e after the entries of t whose count is at least e's
RECURSIVE InsertByCount(_, _)
InsertByCount(e, t) ==
    IF t = <<>> THEN <<e>>
    ELSE IF Head(t).count >= e.count THEN <<Head(t)>> \o InsertByCount(e, Tail(t))
    ELSE <<e>> \o t

RECURSIVE SortByCount(_)
SortByCount(t) ==
    IF t = <<>> THEN <<>>
    ELSE InsertByCount(t[Len(t)], SortByCount(SubSeq(t, 1, Len(t) - 1)))

\* Series.value_counts() and Counter.most_common(): one entry per distinct value,
\* descending by count; equal counts are kept in order of first occurrence (what
\* Counter.most_common guarantees)
value_counts(col) ==
    LET u == Unique(col)
    IN  SortByCount([i \in DOMAIN u |-> [key |-> u[i], count |-> Occurrences(u[i], col)]])

\* Series.head(): the first five entries
head(s) == SubSeq(s, 1, IF Len(s) < 5 THEN Len(s) ELSE 5)

\* n / d rounded to the nearest integer, halves to the even one (numpy's round)
RoundHalfEven(n, d) ==
    LET q == n \div d
        r == n % d
    IN  IF 2 * r < d THEN q
        ELSE IF 2 * r > d THEN q + 1
        ELSE IF q % 2 = 0 THEN q ELSE q + 1

\* as Percent, cut to 2 decimals instead of rounded
Percent_Truncated(count, total) == (count * 10000) \div total

\* round(count / total * 100, 2), in hundredths of a percent
Percent(count, total) == RoundHalfEven(count * 10000, total)

\* the columns are named as the code's comments name them ('name', 'percent')
most_busy_users(rows) ==
    LET vc == value_counts([i \in DOMAIN rows |-> rows[i].user])
    IN  Returned([x |-> head(vc),
                  df |-> [i \in DOMAIN vc |->
                            [name |-> vc[i].key, percent |-> Percent(vc[i].count, Len(rows))]]])

\* Series.str.cat(sep=" ")
RECURSIVE str_cat(_)
str_cat(msgs) ==
    IF msgs = <<>> THEN <<>>
    ELSE IF Len(msgs) = 1 THEN msgs[1]
    ELSE msgs[1] \o <<" ">> \o str_cat(Tail(msgs))

\* the words WordCloud.process_text finds in a text: the maximal runs of word atoms
WordStarts(t) == {i \in DOMAIN t : t[i] \in WordAtoms /\ (i = 1 \/ t[i - 1] \notin WordAtoms)}

\* WordCloud(width=500, height=500, min_font_size=10, background_color='white')
\* is built without a random_state, so every generate() lays the words out and
\* colours them with a fresh Random(): the states such a generator can start in
RandomStates == {1, 2}

\* WordCloud.generate(text): generate_from_frequencies raises ValueError ("We need
\* at least 1 word to plot a word cloud, got 0.") when the text holds no word;
\* otherwise the layout of the returned cloud is drawn from random_state
wc_generate(text, random_state) ==
    [raised |-> WordStarts(text) = {},
     value  |-> [text    |-> text,
                 n_words |-> Cardinality(WordStarts(text)),
                 layout  |-> IF WordStarts(text) = {} THEN 0 ELSE random_state]]

\* the value records the text handed to WordCloud.generate, also when it raised
create_wordcloud(selected_user, rows, random_state) ==
    LET view    == ScopedView(selected_user, rows)
        temp_df == SelectSeq(view, LAMBDA r : r.message # MediaOmitted)
    IN  wc_generate(str_cat([i \in DOMAIN temp_df |-> temp_df[i].message]), random_state)

most_common_emoji(selected_user, rows) ==
    LET view   == ScopedView(selected_user, rows)
        emojis == Concat([i \in DOMAIN view |->
                            SelectSeq(view[i].message, LAMBDA c : c \in EMOJI_DATA)])
        common == value_counts(emojis)
    IN  Returned([i \in DOMAIN common |-> [Emoji |-> common[i].key, Count |-> common[i].count]])

\* as TupleLess, with the last components compared first
RECURSIVE TupleLess_LastFirst(_, _)
TupleLess_LastFirst(a, b) ==
    IF a = <<>> THEN FALSE
    ELSE IF a[Len(a)] # b[Len(b)] THEN a[Len(a)] < b[Len(b)]
    ELSE TupleLess_LastFirst(SubSeq(a, 1, Len(a) - 1), SubSeq(b, 1, Len(b) - 1))

\* lexicographic order of two tuples of numbers of the same length
RECURSIVE TupleLess(_, _)
TupleLess(a, b) ==
    IF a = <<>> THEN FALSE
    ELSE IF Head(a) # Head(b) THEN Head(a) < Head(b)
    ELSE TupleLess(Tail(a), Tail(b))

\* the elements of a set of tuples, ascending
RECURSIVE SortedTuples(_)
SortedTuples(S) ==
    IF S = {} THEN <<>>
    ELSE LET m == CHOOSE x \in S : \A y \in S : y = x \/ TupleLess(x, y)
         IN  <<m>> \o SortedTuples(S \ {m})

DigitChars == <<"0", "1", "2", "3", "4", "5", "6", "7", "8", "9">>

\* str(n) of a number n >= 0: its decimal digits, the highest first
RECURSIVE str_int(_)
str_int(n) ==
    IF n < 10 THEN <<DigitChars[n + 1]>>
    ELSE Append(str_int(n \div 10), DigitChars[(n % 10) + 1])

\* as monthly_timeline, grouped by the month alone (the year left out of the key)
monthly_timeline_ByMonthOnly(selected_user, rows) ==
    LET view == ScopedView(selected_user, rows)
        keys == SortedTuples({<<view[i].month_num>> : i \in DOMAIN view})
        first(k) == CHOOSE j \in DOMAIN view :
                        /\ view[j].month_num = k[1]
                        /\ \A i \in DOMAIN view : view[i].month_num = k[1] => j <= i
    IN  Returned([g \in DOMAIN keys |->
            [year |-> view[first(keys[g])].year, month_num |-> keys[g][1],
             month |-> view[first(keys[g])].month,
             message |-> Cardinality({i \in DOMAIN view : view[i].month_num = keys[g][1]}),
             time |-> <<view[first(keys[g])].month, "-">> \o str_int(view[first(keys[g])].year)]])

\* df.groupby(['year', 'month_num', 'month']).count()['message'].reset_index()
\* and the 'time' label month + "-" + str(year)
monthly_timeline(selected_user, rows) ==
    LET view == ScopedView(selected_user, rows)
        keys == SortedTuples({<<view[i].year, view[i].month_num>> : i \in DOMAIN view})
        name(k) == LET i == CHOOSE j \in DOMAIN view :
                                <<view[j].year, view[j].month_num>> = k
                   IN  view[i].month
    IN  Returned([g \in DOMAIN keys |->
            [year |-> keys[g][1], month_num |-> keys[g][2], month |-> name(keys[g]),
             message |-> Cardinality({i \in DOMAIN view :
                            /\ <<view[i].year, view[i].month_num>> = keys[g]
                            /\ view[i].month = name(keys[g])}),
             time |-> <<name(keys[g]), "-">> \o str_int(keys[g][1])]])

\* df.groupby('only_date').count()['message'].reset_index()
daily_timeline(selected_user, rows) ==
    LET view == ScopedView(selected_user, rows)
        keys == SortedTuples({view[i].only_date : i \in DOMAIN view})
    IN  Returned([g \in DOMAIN keys |->
            [only_date |-> keys[g],
             message |-> Cardinality({i \in DOMAIN view : view[i].only_date = keys[g]})]])

week_activity_map(selected_user, rows) ==
    LET view == ScopedView(selected_user, rows)
    IN  Returned(value_counts([i \in DOMAIN view |-> view[i].day_name]))

month_activity_map(selected_user, rows) ==
    LET view == ScopedView(selected_user, rows)
    IN  Returned(value_counts([i \in DOMAIN view |-> view[i].month]))

----------------------------------------------------------------------------
(* Inputs *)

NoOut == [fn |-> "none", scope |-> <<>>, raised |-> FALSE, value |-> <<>>]

\* History of one call, for the claims that compare two calls of a function:
\* `watched` names a function and a scope to observe, and from the first call of
\* that function with that scope on it holds the table handed over, what the
\* call gave, and how many calls were made after it (counted up to 2, enough to
\* tell a call made again from one made after another call).  Watching nothing leaves
\* `watched` as it is for ever.
Watch(fn, scope) ==
    [fn |-> fn, scope |-> scope, seen |-> FALSE, later |-> 0,
     table |-> <<>>, raised |-> FALSE, value |-> <<>>]

NoWatch == Watch("none", <<>>)

\* how a call c on the table rows moves the history
Observe(c, rows) ==
    watched' = IF watched.seen THEN [watched EXCEPT !.later = IF @ < 2 THEN @ + 1 ELSE @]
             ELSE IF watched.fn = c.fn /\ watched.scope = c.scope
                  THEN [watched EXCEPT !.seen = TRUE, !.table = rows,
                                     !.raised = c.raised, !.value = c.value]
                  ELSE watched

SeqsUpTo(S, n) == UNION {[1..k -> S] : k \in 0..n}

\* headers the pattern matches: two that parse and four that do not
\* (month 13, 30 February, hour 0, minute 60)
SampleHeaders ==
    {Hdr(5, 3, 24, 9, 15, "pm"), Hdr(31, 1, 23, 12, 0, "am"),
     Hdr(1, 13, 24, 9, 15, "pm"), Hdr(30, 2, 24, 9, 15, "am"),
     Hdr(5, 3, 24, 0, 15, "am"), Hdr(5, 3, 24, 9, 60, "pm")}

\* every header over the edges of each field
EdgeHeaders ==
    {Hdr(d, m, y, h, n, a) : d \in {0, 1, 28, 29, 30, 31, 32}, m \in 0..13,
        y \in {23, 24, 68, 69}, h \in 0..13, n \in {0, 59, 60}, a \in {"am", "pm"}}

ParseTexts ==
    SeqsUpTo(SampleHeaders \cup {Chr("A"), Chr(":"), Chr(" ")}, MaxTokens)
      \cup {<<h, Chr("A"), Chr(":"), Chr(" "), Chr("x")>> : h \in EdgeHeaders}

Header1 == Hdr(5, 3, 24, 9, 15, "pm")

SplitTexts == {<<Header1>> \o Text(b) : b \in SeqsUpTo({"A", ":", " ", "\n"}, MaxBodyLen)}

\* the functions called from code that is not the dashboard script: no file
\* uploader, no selectbox, no button, no script run
NoDashboard ==
    /\ uploaded_file = 0
    /\ previous_file = 0
    /\ options = <<>>
    /\ choice = Overall
    /\ button = FALSE
    /\ selected = <<>>
    /\ pc = "none"

----------------------------------------------------------------------------
(* Actions *)

Preprocess ==
    /\ df.state = "none"
    /\ df' = preprocess(data)
    /\ UNCHANGED <<data, watched, dashboard, result>>

InitParse == data \in ParseTexts /\ df = NoTable /\ watched = NoWatch /\ NoDashboard /\ result = NoOut

NextParse == Preprocess

SpecParse == InitParse /\ [][NextParse]_vars

InitSplit == data \in SplitTexts /\ df = NoTable /\ watched = NoWatch /\ NoDashboard /\ result = NoOut

NextSplit == Preprocess

SpecSplit == InitSplit /\ [][NextSplit]_vars

----------------------------------------------------------------------------
(* Claims about preprocess *)

Preprocessed == df.state # "none"

\* the k-th smallest element of a finite set of numbers
RECURSIVE Nth(_, _)
Nth(S, k) ==
    LET m == CHOOSE x \in S : \A y \in S : x <= y
    IN  IF k = 1 THEN m ELSE Nth(S \ {m}, k - 1)

NumHeaders == Cardinality(HeaderPositions(data))

\* the raw body of the k-th header: the characters after it, up to the next
\* header or the end of the input
BodyOf(k) ==
    LET p == Nth(HeaderPositions(data), k)
        q == IF k < NumHeaders THEN Nth(HeaderPositions(data), k + 1) ELSE Len(data) + 1
    IN  [i \in 1..(q - p - 1) |-> data[p + i].ch]

\* a date-time of the fixed format day/month/2-digit-year, 12-hour hour:minute
MonthLengths == <<31, 28, 31, 30, 31, 30, 31, 31, 30, 31, 30, 31>>

DenotesDateTime(h) ==
    /\ 1 <= h.mm /\ h.mm <= 12
    /\ 1 <= h.dd
    /\ \/ h.dd <= MonthLengths[h.mm]
       \/ h.mm = 2 /\ h.dd = 29 /\ h.yy % 4 = 0
    /\ 1 <= h.hh /\ h.hh <= 12
    /\ h.mi <= 59

AllHeadersValid == \A p \in HeaderPositions(data) : DenotesDateTime(HeaderOf(data[p]))

RecordsAligned ==
    /\ df.state = "ok"
    /\ Len(df.rows) = NumHeaders
    /\ \A k \in 1..NumHeaders :
          /\ df.rows[k].message_date = to_datetime(HeaderOf(data[Nth(HeaderPositions(data), k)]))
          /\ df.rows[k].user = SplitMessage(BodyOf(k)).user
          /\ df.rows[k].message = SplitMessage(BodyOf(k)).message

\* C1 (as stated): every raw text with N occurrences of the header pattern yields
\* a table of exactly N records, record i carrying the i-th header's timestamp and
\* the i-th body, in order; N = 0 yields the empty table
C1_Original == Preprocessed => RecordsAligned

\* C1 (amended): every raw text whose N header occurrences all denote a valid
\* date-time yields a table of exactly N records, record i carrying the i-th
\* header's timestamp and the sender and text split from the i-th body, in
\* order; text before the first header is discarded and N = 0 yields the empty table
C1_RecordsPerValidHeader == (Preprocessed /\ AllHeadersValid) => RecordsAligned

\* two records with different timestamps, parsed from a text that starts with
\* characters before the first header
C1_Witness ==
    /\ df.state = "ok"
    /\ Len(df.rows) = 2
    /\ ~IsHeader(data[1])
    /\ df.rows[1].message_date # df.rows[2].message_date
    /\ df.rows[1].message # <<>>

\* position (of the colon) of the first colon-space after the first character
FirstColonSpace(b) ==
    LET S == {k \in 2..(Len(b) - 1) : b[k] = ":" /\ b[k + 1] = " "}
    IN  IF S = {} THEN 0 ELSE CHOOSE k \in S : \A j \in S : k <= j

\* whether a colon is followed by a whitespace character other than the space
ColonOtherSpace(b) ==
    \E k \in 1..(Len(b) - 1) : b[k] = ":" /\ b[k + 1] \in (WhiteSpace \ {" "})

\* C2: a body that starts with a "<name>: " prefix gets sender = the prefix before
\* the first colon-space and text = the entire remainder after it, also when the
\* remainder contains further colon-space occurrences (stated for the bodies
\* whose name holds no colon and no whitespace and whose colons are followed by
\* nothing but the space or a non-whitespace character)
C2_TextIsWholeRemainder ==
    df.state = "ok" =>
        \A k \in 1..NumHeaders :
            LET b == BodyOf(k)
                c == FirstColonSpace(b)
            IN  (/\ c # 0
                 /\ ~ColonOtherSpace(b)
                 /\ \A j \in 1..(c - 1) : b[j] \notin ({":"} \cup WhiteSpace)) =>
                    /\ df.rows[k].user = SubSeq(b, 1, c - 1)
                    /\ df.rows[k].message = SubSeq(b, c + 2, Len(b))

\* C3 (as stated): a body with no colon-space after its first character, also one
\* that has a colon followed by a newline, gets sender = "group_notification" and
\* text = the whole body
C3_Original ==
    df.state = "ok" =>
        \A k \in 1..NumHeaders :
            FirstColonSpace(BodyOf(k)) = 0 =>
                /\ df.rows[k].user = group_notification
                /\ df.rows[k].message = BodyOf(k)

\* C3 (amended): a body in which no colon after the first character is followed
\* by a whitespace character (space, newline, tab, carriage return) gets sender =
\* "group_notification" and text = the whole body; this covers bodies that begin
\* with colon-space and bodies whose colons are followed by other characters
C3_NoColonWhitespaceIsNotification ==
    df.state = "ok" =>
        \A k \in 1..NumHeaders :
            LET b == BodyOf(k)
            IN  (\A j \in 2..(Len(b) - 1) : ~(b[j] = ":" /\ b[j + 1] \in WhiteSpace)) =>
                    /\ df.rows[k].user = group_notification
                    /\ df.rows[k].message = b

\* a body that begins with colon-space and holds a colon before a letter
C3_Witness ==
    /\ df.state = "ok"
    /\ NumHeaders = 1
    /\ LET b == BodyOf(1)
       IN  /\ Len(b) >= 5
           /\ b[1] = ":" /\ b[2] = " "
           /\ \E j \in 3..(Len(b) - 1) : b[j] = ":" /\ b[j + 1] = "A"
    /\ df.rows[1].user = group_notification
    /\ df.rows[1].message = BodyOf(1)

\* C4: if any header the pattern matched does not denote a valid date-time,
\* preprocess raises for the whole input and returns no table: no partial table
\* of the headers that did parse
C4_InvalidHeaderIsFatal ==
    (Preprocessed /\ ~AllHeadersValid) => (df.state = "ValueError" /\ df.rows = <<>>)

\* a text with a valid header followed by an invalid one, on which preprocess raised
C4_Witness ==
    /\ df.state = "ValueError"
    /\ \E p, q \in HeaderPositions(data) :
          p < q /\ DenotesDateTime(HeaderOf(data[p])) /\ ~DenotesDateTime(HeaderOf(data[q]))

----------------------------------------------------------------------------
(* Calls of the helper functions on a parsed table *)

\* January 2023, January 2024 and March 2024
AggHeaders == {Hdr(31, 1, 23, 12, 0, "am"), Hdr(1, 1, 24, 9, 15, "pm"), Header1}

\* a sender prefix ("A: ", "Overall: ") or none, as a system notification has
AggPrefixes == {<<"A", ":", " ">>, <<"Overall", ":", " ">>, <<>>}

\* the media placeholder, a text that contains it, a text with an emoji
AggMessages == {MediaOmitted, <<"hi">> \o MediaOmitted, <<"hi", " ", "(joy)", "\n">>}

\* a message block: every header with every prefix, and every prefix with every message
AggBlocks ==
    {<<h>> \o Text(p \o MediaOmitted) : h \in AggHeaders, p \in AggPrefixes}
      \cup {<<Header1>> \o Text(p \o m) : p \in AggPrefixes, m \in AggMessages}

AggTexts == {Concat(bs) : bs \in SeqsUpTo(AggBlocks, MaxMsgs)}

\* the scopes handed to the functions: all senders, a sender of the texts, a
\* sender of none of them, the system sentinel
Scopes == {Overall, <<"A">>, <<"B">>, group_notification}

Call(fn, scope, r) == [fn |-> fn, scope |-> scope, raised |-> r.raised, value |-> r.value]

FetchStats ==
    /\ df.state = "ok"
    /\ \E u \in Scopes : result' = Call("fetch_stats", u, fetch_stats(u, df.rows))
    /\ Observe(result', df.rows)
    /\ UNCHANGED <<data, df, dashboard>>

MostBusyUsers ==
    /\ df.state = "ok"
    /\ result' = Call("most_busy_users", Overall, most_busy_users(df.rows))
    /\ Observe(result', df.rows)
    /\ UNCHANGED <<data, df, dashboard>>

\* as CreateWordcloud, had line 102 dropped the media records from the table itself
CreateWordcloud_InPlace ==
    /\ df.state = "ok"
    /\ \E u \in Scopes, rs \in RandomStates :
          result' = Call("create_wordcloud", u, create_wordcloud(u, df.rows, rs))
    /\ Observe(result', df.rows)
    /\ df' = [df EXCEPT !.rows = SelectSeq(df.rows, LAMBDA r : r.message # MediaOmitted)]
    /\ UNCHANGED <<data, dashboard>>

CreateWordcloud ==
    /\ df.state = "ok"
    /\ \E u \in Scopes, rs \in RandomStates :
          result' = Call("create_wordcloud", u, create_wordcloud(u, df.rows, rs))
    /\ Observe(result', df.rows)
    /\ UNCHANGED <<data, df, dashboard>>

MostCommonEmoji ==
    /\ df.state = "ok"
    /\ \E u \in Scopes : result' = Call("most_common_emoji", u, most_common_emoji(u, df.rows))
    /\ Observe(result', df.rows)
    /\ UNCHANGED <<data, df, dashboard>>

MonthlyTimeline ==
    /\ df.state = "ok"
    /\ \E u \in Scopes : result' = Call("monthly_timeline", u, monthly_timeline(u, df.rows))
    /\ Observe(result', df.rows)
    /\ UNCHANGED <<data, df, dashboard>>

DailyTimeline ==
    /\ df.state = "ok"
    /\ \E u \in Scopes : result' = Call("daily_timeline", u, daily_timeline(u, df.rows))
    /\ Observe(result', df.rows)
    /\ UNCHANGED <<data, df, dashboard>>

WeekActivityMap ==
    /\ df.state = "ok"
    /\ \E u \in Scopes : result' = Call("week_activity_map", u, week_activity_map(u, df.rows))
    /\ Observe(result', df.rows)
    /\ UNCHANGED <<data, df, dashboard>>

MonthActivityMap ==
    /\ df.state = "ok"
    /\ \E u \in Scopes : result' = Call("month_activity_map", u, month_activity_map(u, df.rows))
    /\ Observe(result', df.rows)
    /\ UNCHANGED <<data, df, dashboard>>

Init == data \in AggTexts /\ df = NoTable /\ watched = NoWatch /\ NoDashboard /\ result = NoOut

Next ==
    \/ Preprocess
    \/ FetchStats
    \/ MostBusyUsers
    \/ CreateWordcloud
    \/ MostCommonEmoji
    \/ MonthlyTimeline
    \/ DailyTimeline
    \/ WeekActivityMap
    \/ MonthActivityMap

Spec == Init /\ [][Next]_vars

----------------------------------------------------------------------------
(* most_busy_users on exports with many senders *)

Min(a, b) == IF a < b THEN a ELSE b

\* the ways to write n as a sum of parts, largest first, each at most m
RECURSIVE Partitions(_, _)
Partitions(n, m) ==
    IF n = 0 THEN {<<>>}
    ELSE UNION {{<<k>> \o p : p \in Partitions(n - k, k)} : k \in 1..Min(n, m)}

NameAtoms == <<"a", "b", "c", "d", "e", "f", "g">>

\* the j-th sender name, two characters long
SenderName(j) ==
    <<NameAtoms[((j - 1) \div Len(NameAtoms)) + 1], NameAtoms[((j - 1) % Len(NameAtoms)) + 1]>>

\* an export in which sender j wrote counts[j] messages, sender 1 first
RECURSIVE BusyText(_, _)
BusyText(counts, j) ==
    IF j > Len(counts) THEN <<>>
    ELSE Concat([i \in 1..counts[j] |-> <<Header1>> \o Text(SenderName(j) \o <<":", " ", "hi">>)])
           \o BusyText(counts, j + 1)

\* one export per multiset of per-sender message counts (the order of the
\* records and the names of the senders do not enter the percentages)
InitBusy ==
    /\ data \in {BusyText(p, 1) : p \in UNION {Partitions(n, MaxPerSender) : n \in 0..MaxRecords}}
    /\ df = NoTable
    /\ watched = NoWatch
    /\ NoDashboard
    /\ result = NoOut

NextBusy == Preprocess \/ MostBusyUsers

SpecBusy == InitBusy /\ [][NextBusy]_vars

----------------------------------------------------------------------------
(* most_common_emoji on texts of several emoji *)

EmojiAtoms == EMOJI_DATA \cup {"hi"}

\* a message of A of up to MaxEmojis emoji and words, alone or followed by a
\* message of A or of B of one of them
InitEmoji ==
    /\ data \in {<<Header1>> \o Text(<<"A", ":", " ">> \o b) \o t :
                    b \in SeqsUpTo(EmojiAtoms, MaxEmojis),
                    t \in {<<>>} \cup {<<Header1>> \o Text(<<u, ":", " ", c>>) :
                                          u \in {"A", "B"}, c \in EmojiAtoms}}
    /\ df = NoTable
    /\ watched = NoWatch
    /\ NoDashboard
    /\ result = NoOut

NextEmoji == Preprocess \/ MostCommonEmoji

SpecEmoji == InitEmoji /\ [][NextEmoji]_vars

----------------------------------------------------------------------------
(* monthly_timeline on exports whose records are in any order *)

\* January 2023, December 2023, January 2024, March 2024
MonthlyHeaders ==
    {Hdr(31, 1, 23, 12, 0, "am"), Hdr(31, 12, 23, 11, 59, "pm"), Hdr(1, 1, 24, 9, 15, "pm"), Header1}

\* up to MaxMonthly messages of A and of B, of any of the months, in any order
InitMonthly ==
    /\ data \in {Concat(bs) : bs \in SeqsUpTo({<<h>> \o Text(<<u, ":", " ", "hi">>) :
                                                    h \in MonthlyHeaders, u \in {"A", "B"}},
                                                MaxMonthly)}
    /\ df = NoTable
    /\ watched = NoWatch
    /\ NoDashboard
    /\ result = NoOut

NextMonthly == Preprocess \/ MonthlyTimeline

SpecMonthly == InitMonthly /\ [][NextMonthly]_vars

----------------------------------------------------------------------------
(* the functions called again: one call under observation *)

\* a system notification of 2023, a message of A with a word and an emoji, a
\* message of a sender named Overall that contains the media placeholder
FrameBlocks ==
    {<<Hdr(31, 1, 23, 12, 0, "am")>> \o Text(MediaOmitted),
     <<Header1>> \o Text(<<"A", ":", " ", "hi", " ", "(joy)", "\n">>),
     <<Header1>> \o Text(<<"Overall", ":", " ", "hi">> \o MediaOmitted)}

\* any call of any function may be the one observed
InitFrame ==
    /\ data \in {Concat(bs) : bs \in SeqsUpTo(FrameBlocks, MaxMsgs)}
    /\ df = NoTable
    /\ watched \in {Watch(fn, u) : fn \in {"fetch_stats", "create_wordcloud", "most_common_emoji",
                                           "monthly_timeline", "daily_timeline",
                                           "week_activity_map", "month_activity_map"},
                                   u \in Scopes}
                   \cup {Watch("most_busy_users", Overall)}
    /\ NoDashboard
    /\ result = NoOut

SpecFrame == InitFrame /\ [][Next]_vars

----------------------------------------------------------------------------
(* The dashboard script.  Streamlit runs app.py from its first line again on
   every widget event, with no name of an earlier run bound; file_uploader
   returns the file held by the widget or None, selectbox the option chosen
   (the first one when the widget is new, and a selectbox with other options is
   a new widget), button True only in the run its click started. *)

\* the exports a user may upload: two senders; one sender and the media
\* placeholder alone; a header that is no date; a system notification alone;
\* one sender again, with a word
AppFiles ==
    <<<<Header1>> \o Text(<<"A", ":", " ", "hi", " ", "(joy)", "\n">>)
        \o <<Hdr(1, 1, 24, 9, 15, "pm")>> \o Text(<<"B", ":", " ">> \o MediaOmitted),
      <<Header1>> \o Text(<<"A", ":", " ">> \o MediaOmitted),
      <<Hdr(32, 1, 24, 9, 15, "pm")>> \o Text(<<"A", ":", " ", "hi">>),
      <<Hdr(31, 1, 23, 12, 0, "am")>> \o Text(<<"hi">>),
      <<Hdr(31, 12, 23, 11, 59, "pm")>> \o Text(<<"A", ":", " ", "hi">>)>>

\* the sender names of the exports, in the order list.sort() puts them
SortedNames == <<<<"A">>, <<"B">>>>

\* lines 98-102: the distinct senders without 'group_notification', sorted,
\* 'Overall' put in front
user_list(rows) ==
    LET users == Range(Unique([i \in DOMAIN rows |-> rows[i].user])) \ {group_notification}
    IN  <<Overall>> \o SelectSeq(SortedNames, LAMBDA n : n \in users)

\* the helper calls of the report, in the order of lines 117-200
Report == <<"fetch_stats", "monthly_timeline", "daily_timeline", "week_activity_map",
            "month_activity_map", "create_wordcloud", "most_common_emoji">>

\* the call that follows a call of the report
After(fn) ==
    LET k == CHOOSE i \in DOMAIN Report : Report[i] = fn
    IN  IF k = Len(Report) THEN "done" ELSE Report[k + 1]

\* a widget event stops the run under way and starts the script again
Rerun ==
    /\ pc' = "top"
    /\ data' = <<>>
    /\ df' = NoTable
    /\ selected' = <<>>
    /\ result' = NoOut
    /\ UNCHANGED watched

\* as Upload, had the run under way gone on with the table it holds
Upload_NoRerun ==
    \E f \in DOMAIN AppFiles :
        /\ f # uploaded_file
        /\ uploaded_file' = f
        /\ previous_file' = IF uploaded_file # 0 THEN uploaded_file ELSE previous_file
        /\ UNCHANGED <<options, choice, button, pc, data, df, selected, result, watched>>

\* the user puts a file into the uploader (in place of the one it holds)
Upload ==
    \E f \in DOMAIN AppFiles :
        /\ f # uploaded_file
        /\ uploaded_file' = f
        /\ previous_file' = IF uploaded_file # 0 THEN uploaded_file ELSE previous_file
        /\ button' = FALSE
        /\ UNCHANGED <<options, choice>>
        /\ Rerun

\* the user takes the file out of the uploader
Remove ==
    /\ uploaded_file # 0
    /\ uploaded_file' = 0
    /\ previous_file' = uploaded_file
    /\ button' = FALSE
    /\ UNCHANGED <<options, choice>>
    /\ Rerun

\* the user picks another option of the selectbox on the page
Select ==
    \E u \in Range(options) :
        /\ u # choice
        /\ choice' = u
        /\ button' = FALSE
        /\ UNCHANGED <<uploaded_file, previous_file, options>>
        /\ Rerun

\* the user clicks "Generate Report", which is on the page with the selectbox
PressGenerate ==
    /\ options # <<>>
    /\ button' = TRUE
    /\ UNCHANGED <<uploaded_file, previous_file, options, choice>>
    /\ Rerun

\* lines 83-107: the uploader, the guard, preprocess (a ValueError ends the
\* run), the list of users, the selectbox, the button
Script ==
    /\ pc = "top"
    /\ IF uploaded_file = 0
       THEN /\ options' = <<>>
            /\ choice' = Overall
            /\ pc' = "done"
            /\ UNCHANGED <<data, df, selected>>
       ELSE LET d   == AppFiles[uploaded_file]
                t   == preprocess(d)
                ul  == user_list(t.rows)
                sel == IF ul = options THEN choice ELSE Overall
            IN  /\ data' = d
                /\ df' = t
                /\ IF t.state = "ValueError"
                   THEN /\ options' = <<>>
                        /\ choice' = Overall
                        /\ selected' = <<>>
                        /\ pc' = "done"
                   ELSE /\ options' = ul
                        /\ choice' = sel
                        /\ selected' = sel
                        /\ pc' = IF button THEN Report[1] ELSE "done"
    /\ UNCHANGED <<uploaded_file, previous_file, button, watched, result>>

\* a helper call of the report: an exception ends the run
Step(fn, r) ==
    /\ pc = fn
    /\ result' = Call(fn, selected, r)
    /\ pc' = IF r.raised THEN "done" ELSE After(fn)
    /\ UNCHANGED <<data, df, watched, uploaded_file, previous_file, options, choice,
                   button, selected>>

ReportFetchStats == Step("fetch_stats", fetch_stats(selected, df.rows))

ReportMonthlyTimeline == Step("monthly_timeline", monthly_timeline(selected, df.rows))

ReportDailyTimeline == Step("daily_timeline", daily_timeline(selected, df.rows))

ReportWeekActivityMap == Step("week_activity_map", week_activity_map(selected, df.rows))

ReportMonthActivityMap == Step("month_activity_map", month_activity_map(selected, df.rows))

ReportCreateWordcloud ==
    \E rs \in RandomStates : Step("create_wordcloud", create_wordcloud(selected, df.rows, rs))

ReportMostCommonEmoji == Step("most_common_emoji", most_common_emoji(selected, df.rows))

\* the page is opened: nothing uploaded, the first run about to start
InitApp ==
    /\ data = <<>>
    /\ df = NoTable
    /\ watched = NoWatch
    /\ uploaded_file = 0
    /\ previous_file = 0
    /\ options = <<>>
    /\ choice = Overall
    /\ button = FALSE
    /\ selected = <<>>
    /\ pc = "top"
    /\ result = NoOut

NextApp ==
    \/ Upload
    \/ Remove
    \/ Select
    \/ PressGenerate
    \/ Script
    \/ ReportFetchStats
    \/ ReportMonthlyTimeline
    \/ ReportDailyTimeline
    \/ ReportWeekActivityMap
    \/ ReportMonthActivityMap
    \/ ReportCreateWordcloud
    \/ ReportMostCommonEmoji

SpecApp == InitApp /\ [][NextApp]_vars

----------------------------------------------------------------------------
(* Claims about the helper functions *)

Called == result.fn # "none"

ScopedFns == {"fetch_stats", "create_wordcloud", "most_common_emoji", "monthly_timeline",
              "daily_timeline", "week_activity_map", "month_activity_map"}

\* the records a scope selects: all of them, or those of one sender
InScope(scope) == {i \in DOMAIN df.rows : scope = Overall \/ df.rows[i].user = scope}

\* the records of a set of positions, in table order
RowsAt(S) == [k \in 1..Cardinality(S) |-> df.rows[Nth(S, k)]]

\* the view the last call worked on: most_busy_users takes the whole table
ViewOfCall == IF result.fn = "most_busy_users" THEN DOMAIN df.rows ELSE InScope(result.scope)

\* a zero count / an empty structure, per function
EmptyResult ==
    CASE result.fn = "fetch_stats" ->
            result.value = [num_messages |-> 0, words |-> 0, num_media_messages |-> 0, links |-> 0]
      [] result.fn = "most_busy_users" -> result.value.x = <<>> /\ result.value.df = <<>>
      [] result.fn = "create_wordcloud" -> result.value.n_words = 0
      [] OTHER -> result.value = <<>>

\* C5: every aggregator function applied to a view with zero rows (the empty
\* table, or a scope that names no sender of the table) returns a zero count /
\* an empty structure and never raises
C5_EmptyViewNeverRaises ==
    (Called /\ ViewOfCall = {}) => (~result.raised /\ EmptyResult)

\* the part of C5 that the code does satisfy: every function but create_wordcloud
C5_ExceptWordcloud ==
    (Called /\ ViewOfCall = {} /\ result.fn # "create_wordcloud") => (~result.raised /\ EmptyResult)

\* C6: when the scoped view is non-empty and every record of it is the media
\* placeholder, create_wordcloud and most_common_emoji return an explicit empty
\* result instead of raising
C6_AllMediaNeverRaises ==
    (/\ result.fn \in {"create_wordcloud", "most_common_emoji"}
     /\ InScope(result.scope) # {}
     /\ \A i \in InScope(result.scope) : df.rows[i].message = MediaOmitted)
        => (~result.raised /\ EmptyResult)

\* C8: monthly_timeline has exactly one row per distinct (year, month_number) of
\* the scoped view, month_activity_map exactly one entry per distinct month name
\* with the count summed over all years, and in both the counts sum to the
\* number of records of the scoped view
C8_MonthlyRowsPerYearMonth ==
    LET V == InScope(result.scope)
        t == result.value
    IN  /\ result.fn = "monthly_timeline" =>
              /\ Len(t) = Cardinality({<<df.rows[i].year, df.rows[i].month_num>> : i \in V})
              /\ \A i \in V : \E g \in DOMAIN t :
                    /\ t[g].year = df.rows[i].year
                    /\ t[g].month_num = df.rows[i].month_num
                    /\ t[g].month = df.rows[i].month
                    /\ t[g].message = Cardinality({j \in V :
                            /\ df.rows[j].year = df.rows[i].year
                            /\ df.rows[j].month_num = df.rows[i].month_num})
              /\ SumSeq([g \in DOMAIN t |-> t[g].message]) = Cardinality(V)
        /\ result.fn = "month_activity_map" =>
              /\ Len(t) = Cardinality({df.rows[i].month : i \in V})
              /\ \A i \in V : \E g \in DOMAIN t :
                    /\ t[g].key = df.rows[i].month
                    /\ t[g].count = Cardinality({j \in V : df.rows[j].month = df.rows[i].month})
              /\ SumSeq([g \in DOMAIN t |-> t[g].count]) = Cardinality(V)

\* monthly_timeline of one sender's records, one of January 2023 and one of
\* January 2024: two rows
C8_Witness ==
    /\ result.fn = "monthly_timeline"
    /\ result.scope = <<"A">>
    /\ Len(result.value) = 2
    /\ result.value[1].month = "January" /\ result.value[2].month = "January"
    /\ result.value[1].year = 2023 /\ result.value[2].year = 2024

\* the number of emoji characters in the records of a set of positions
EmojiTotal(S) ==
    SumSeq([k \in 1..Cardinality(S) |->
        Cardinality({c \in DOMAIN df.rows[Nth(S, k)].message :
                        df.rows[Nth(S, k)].message[c] \in EMOJI_DATA})])

\* the text of the records of a set of positions that are not the media
\* placeholder, joined by single spaces in table order
CorpusOf(S) == str_cat([k \in 1..Cardinality(S \ {i \in S : df.rows[i].message = MediaOmitted}) |->
                    df.rows[Nth(S \ {i \in S : df.rows[i].message = MediaOmitted}, k)].message])

\* C9: with a scope other than 'Overall' every scoped function computes its
\* result from exactly the records whose sender equals the scope (fetch_stats's
\* message count is their number); with 'Overall' from every record of the
\* table, those of 'group_notification' included
C9_ResultFromScopedRecords ==
    LET V == InScope(result.scope)
        t == result.value
    IN  /\ result.fn = "fetch_stats" =>
              /\ t.num_messages = Cardinality(V)
              /\ t = fetch_stats(Overall, RowsAt(V)).value
        /\ result.fn = "create_wordcloud" =>
              /\ t.text = CorpusOf(V)
              /\ \E rs \in RandomStates : t = create_wordcloud(Overall, RowsAt(V), rs).value
        /\ result.fn = "most_common_emoji" =>
              /\ SumSeq([g \in DOMAIN t |-> t[g].Count]) = EmojiTotal(V)
              /\ t = most_common_emoji(Overall, RowsAt(V)).value
        /\ result.fn = "monthly_timeline" =>
              /\ SumSeq([g \in DOMAIN t |-> t[g].message]) = Cardinality(V)
              /\ t = monthly_timeline(Overall, RowsAt(V)).value
        /\ result.fn = "daily_timeline" =>
              /\ SumSeq([g \in DOMAIN t |-> t[g].message]) = Cardinality(V)
              /\ t = daily_timeline(Overall, RowsAt(V)).value
        /\ result.fn = "week_activity_map" =>
              /\ SumSeq([g \in DOMAIN t |-> t[g].count]) = Cardinality(V)
              /\ t = week_activity_map(Overall, RowsAt(V)).value
        /\ result.fn = "month_activity_map" =>
              /\ SumSeq([g \in DOMAIN t |-> t[g].count]) = Cardinality(V)
              /\ t = month_activity_map(Overall, RowsAt(V)).value

\* fetch_stats over 'Overall' on a table of one user record and one system
\* notification counts both
C9_Witness ==
    /\ result.fn = "fetch_stats"
    /\ result.scope = Overall
    /\ Len(df.rows) = 2
    /\ df.rows[1].user = group_notification
    /\ df.rows[2].user = <<"A">>
    /\ result.value.num_messages = 2

\* C10: a record of the scoped view whose text is exactly the media placeholder
\* adds exactly 1 to fetch_stats's media count and nothing to the text handed to
\* the word cloud; a record whose text merely contains the placeholder is not
\* counted as media and stays in that text
C10_MediaCountedAndExcluded ==
    LET V == InScope(result.scope)
    IN  /\ result.fn = "fetch_stats" =>
              result.value.num_media_messages =
                  Cardinality({i \in V : df.rows[i].message = MediaOmitted})
        /\ result.fn = "create_wordcloud" => result.value.text = CorpusOf(V)

\* fetch_stats on a view with the placeholder and a text that contains it
C10_Witness ==
    /\ result.fn = "fetch_stats"
    /\ result.scope = <<"A">>
    /\ Len(df.rows) = 2
    /\ df.rows[1].user = <<"A">> /\ df.rows[1].message = MediaOmitted
    /\ df.rows[2].user = <<"A">> /\ df.rows[2].message = <<"hi">> \o MediaOmitted
    /\ result.value.num_media_messages = 1

\* the sum of the percent column, in hundredths of a percent
PercentSum == SumSeq([i \in DOMAIN result.value.df |-> result.value.df[i].percent])

Distance(a, b) == IF a < b THEN b - a ELSE a - b

\* C7 (as stated): for every non-empty table the percent column of
\* most_busy_users sums to a value within 0.1 of 100.00
C7_Original ==
    (result.fn = "most_busy_users" /\ df.rows # <<>>) => Distance(PercentSum, 10000) <= 10

\* C7 (amended): for every non-empty table with fewer than 20 distinct senders
\* the percent column of most_busy_users, over all senders, sums to a value
\* within 0.1 of 100.00
C7_PercentSumUnder20Senders ==
    (result.fn = "most_busy_users" /\ df.rows # <<>> /\ Len(result.value.df) < 20)
        => Distance(PercentSum, 10000) < 10

\* 19 senders whose rounded percentages do not sum to 100.00
C7_Witness ==
    /\ result.fn = "most_busy_users"
    /\ Len(result.value.df) = 19
    /\ Len(result.value.x) = 5
    /\ PercentSum # 10000

----------------------------------------------------------------------------
(* Claims about calls made again *)

\* the table stays as preprocess produced it
TableKept == df.state = "ok" => df' = df

\* the last call is a call of the observed function with the observed scope on
\* the table the first such call was given
SameCall ==
    /\ watched.seen
    /\ result.fn = watched.fn
    /\ result.scope = watched.scope
    /\ df.rows = watched.table

\* C11 (as stated): no aggregator call changes the table, and a call of a
\* function with the scope and table of its first call gives a result identical
\* to the first one, whatever calls were made in between
C11_Original ==
    [][/\ TableKept
       /\ SameCall' => (result'.raised = watched'.raised /\ result'.value = watched'.value)]_vars

\* C11 (amended): no aggregator call changes the table, and a call of a function
\* with the scope and table of its first call raises as the first one did and
\* gives an identical result, whatever calls were made in between; of
\* create_wordcloud's result only the text and its words are identical, the
\* layout of the cloud is drawn anew in every call
C11_TableKeptAndResultRepeats ==
    [][/\ TableKept
       /\ SameCall' =>
             /\ result'.raised = watched'.raised
             /\ IF result'.fn = "create_wordcloud"
                   THEN /\ result'.value.text = watched'.value.text
                        /\ result'.value.n_words = watched'.value.n_words
                   ELSE result'.value = watched'.value]_vars

\* monthly_timeline called for 'Overall' on two records, then other calls, then
\* called again
C11_Witness ==
    /\ SameCall
    /\ watched.later = 2
    /\ result.fn = "monthly_timeline"
    /\ result.scope = Overall
    /\ Len(df.rows) = 2
    /\ result.value = watched.value
    /\ result.value # <<>>

----------------------------------------------------------------------------
(* Claims about most_common_emoji *)

\* the emoji characters of the records of a set of positions, as a scan of their
\* texts in table order meets them
EmojiScan(S) ==
    Concat([k \in 1..Cardinality(S) |->
              SelectSeq(df.rows[Nth(S, k)].message, LAMBDA c : c \in EMOJI_DATA)])

\* where a scan meets e first
FirstAt(e, scan) == CHOOSE i \in DOMAIN scan : scan[i] = e /\ \A j \in 1..(i - 1) : scan[j] # e

\* C12: most_common_emoji returns one row per distinct emoji character of the
\* scoped texts, Count is the number of its occurrences, the rows are ordered
\* by Count descending, and of two emoji of equal Count the one that a scan of
\* the scoped texts in table order meets first comes first
C12_EmojiRowsOrdered ==
    result.fn = "most_common_emoji" =>
        LET scan == EmojiScan(InScope(result.scope))
            t    == result.value
        IN  /\ ~result.raised
            /\ {t[g].Emoji : g \in DOMAIN t} = Range(scan)
            /\ Len(t) = Cardinality(Range(scan))
            /\ \A g \in DOMAIN t : t[g].Count = Occurrences(t[g].Emoji, scan)
            /\ \A g, h \in DOMAIN t :
                  g < h => \/ t[g].Count > t[h].Count
                           \/ /\ t[g].Count = t[h].Count
                              /\ FirstAt(t[g].Emoji, scan) < FirstAt(t[h].Emoji, scan)

\* A wrote fire, joy, heart and B wrote heart: for 'Overall' heart (2) comes
\* first and fire stays before joy, in the order of the scan
C12_Witness ==
    /\ result.fn = "most_common_emoji"
    /\ result.scope = Overall
    /\ Len(df.rows) = 2
    /\ df.rows[1].message = <<"(fire)", "(joy)", "(heart)">>
    /\ df.rows[2].user = <<"B">>
    /\ result.value = <<[Emoji |-> "(heart)", Count |-> 2],
                        [Emoji |-> "(fire)", Count |-> 1],
                        [Emoji |-> "(joy)", Count |-> 1]>>

----------------------------------------------------------------------------
(* Claims about monthly_timeline *)

\* the number a sequence of decimal digits writes
RECURSIVE DecimalValue(_)
DecimalValue(ds) ==
    IF ds = <<>> THEN 0
    ELSE 10 * DecimalValue(SubSeq(ds, 1, Len(ds) - 1))
           + (CHOOSE v \in 0..9 : DigitChars[v + 1] = ds[Len(ds)])

\* the table with its records in the order p
Reordered(p) == [i \in DOMAIN df.rows |-> df.rows[p[i]]]

\* C13: the rows of monthly_timeline are in ascending order of (year,
\* month_number) and the same whatever the order of the records in the table,
\* and each row's 'time' is the row's month name, a hyphen and the row's year
\* in decimal digits
C13_MonthlyRowsSortedAndLabelled ==
    result.fn = "monthly_timeline" =>
        LET t == result.value
        IN  /\ \A g, h \in DOMAIN t :
                  g < h => \/ t[g].year < t[h].year
                           \/ t[g].year = t[h].year /\ t[g].month_num <= t[h].month_num
            /\ \A p \in Permutations(DOMAIN df.rows) :
                  monthly_timeline(result.scope, Reordered(p)).value = t
            /\ \A g \in DOMAIN t :
                  /\ Len(t[g].time) = 6
                  /\ t[g].time[1] = t[g].month
                  /\ t[g].time[2] = "-"
                  /\ t[g].time[3] # "0"
                  /\ \A k \in 3..6 : t[g].time[k] \in Range(DigitChars)
                  /\ DecimalValue(SubSeq(t[g].time, 3, 6)) = t[g].year

\* a table with a record of January 2024 before one of December 2023 and one of
\* January 2023: the rows come out as January 2023, December 2023, January 2024
C13_Witness ==
    /\ result.fn = "monthly_timeline"
    /\ result.scope = Overall
    /\ Len(df.rows) = 3
    /\ <<df.rows[1].year, df.rows[1].month_num>> = <<2024, 1>>
    /\ <<df.rows[2].year, df.rows[2].month_num>> = <<2023, 12>>
    /\ <<df.rows[3].year, df.rows[3].month_num>> = <<2023, 1>>
    /\ Len(result.value) = 3
    /\ result.value[1].time = <<"January", "-", "2", "0", "2", "3">>
    /\ result.value[2].time = <<"December", "-", "2", "0", "2", "3">>
    /\ result.value[3].time = <<"January", "-", "2", "0", "2", "4">>

----------------------------------------------------------------------------
(* Claims about the dashboard *)

\* a step in which a helper function is called
Invoked == result'.fn # "none" /\ result'.fn # result.fn

\* what a helper function gives for a scope and a table
Apply(fn, u, rows, rs) ==
    CASE fn = "fetch_stats" -> fetch_stats(u, rows)
      [] fn = "monthly_timeline" -> monthly_timeline(u, rows)
      [] fn = "daily_timeline" -> daily_timeline(u, rows)
      [] fn = "week_activity_map" -> week_activity_map(u, rows)
      [] fn = "month_activity_map" -> month_activity_map(u, rows)
      [] fn = "create_wordcloud" -> create_wordcloud(u, rows, rs)
      [] fn = "most_common_emoji" -> most_common_emoji(u, rows)

====
